---- MODULE Spec2Model ----
(***************************************************************************)
(* A model of the xDS resolver (route resolution, cluster ref-counts,      *)
(* watcher lifecycle) and of ResolvingCall (per-RPC binding state machine).*)
(*                                                                         *)
(* Character strings that the code inspects character by character         *)
(* (domain patterns, method names, header names and values) are sequences  *)
(* of one-character strings.  Cluster names, route-config names and status *)
(* codes are only compared for equality and are plain strings.  The JS     *)
(* value null is the string "null" where the field is a string, and 0      *)
(* where it is an index.                                                   *)
(***************************************************************************)
EXTENDS Integers, Sequences, FiniteSets, TLC

(***************************************************************************)
(* Native string operations used by the code.                              *)
(***************************************************************************)
startsWith(s, p) == Len(p) <= Len(s) /\ SubSeq(s, 1, Len(p)) = p

endsWith(s, p) == Len(p) <= Len(s) /\ SubSeq(s, Len(s) - Len(p) + 1, Len(s)) = p

containsStar(s) == \E i \in 1..Len(s) : s[i] = "*"

Lower(c) == IF c = "A" THEN "a" ELSE IF c = "B" THEN "b" ELSE c

toLowerCase(s) == [i \in 1..Len(s) |-> Lower(s[i])]

(***************************************************************************)
(* Domain Matcher.                                                         *)
(***************************************************************************)
EXACT_MATCH == 0
SUFFIX_MATCH == 1
PREFIX_MATCH == 2
UNIVERSE_MATCH == 3
INVALID_MATCH == 4

domainPatternMatchType(domainPattern) ==
  IF Len(domainPattern) = 0 THEN INVALID_MATCH
  ELSE IF ~containsStar(domainPattern) THEN EXACT_MATCH
  ELSE IF domainPattern = <<"*">> THEN UNIVERSE_MATCH
  ELSE IF startsWith(domainPattern, <<"*">>) THEN SUFFIX_MATCH
  ELSE IF endsWith(domainPattern, <<"*">>) THEN PREFIX_MATCH
  ELSE INVALID_MATCH

domainMatch(matchType, domainPattern, expectedHostName) ==
  CASE matchType = EXACT_MATCH -> expectedHostName = domainPattern
    [] matchType = SUFFIX_MATCH ->
         endsWith(expectedHostName, SubSeq(domainPattern, 2, Len(domainPattern)))
    [] matchType = PREFIX_MATCH ->
         startsWith(expectedHostName, SubSeq(domainPattern, 1, Len(domainPattern) - 1))
    [] matchType = UNIVERSE_MATCH -> TRUE
    [] OTHER -> FALSE

(* The two nested loops of findVirtualHostForDomain: i is the position in  *)
(* the virtual-host list, j the position in that host's domain list, st    *)
(* the three loop variables.  targetVhost is the index of the chosen host, *)
(* 0 for null.                                                             *)
RECURSIVE ScanDomains(_, _, _, _, _)
ScanDomains(virtualHostList, i, j, domain, st) ==
  IF i > Len(virtualHostList) THEN st
  ELSE IF j > Len(virtualHostList[i].domains)
    THEN IF st.bestMatchType = EXACT_MATCH THEN st
         ELSE ScanDomains(virtualHostList, i + 1, 1, domain, st)
  ELSE LET domainPattern == virtualHostList[i].domains[j]
           matchType == domainPatternMatchType(domainPattern)
           skip == \/ matchType > st.bestMatchType
                   \/ /\ matchType = st.bestMatchType
                      /\ Len(domainPattern) <= st.longestMatch
           st2 == IF domainMatch(matchType, domainPattern, domain)
                    THEN [targetVhost |-> i, bestMatchType |-> matchType,
                          longestMatch |-> Len(domainPattern)]
                    ELSE st
       IN IF skip THEN ScanDomains(virtualHostList, i, j + 1, domain, st)
          ELSE IF st2.bestMatchType = EXACT_MATCH THEN st2
          ELSE ScanDomains(virtualHostList, i, j + 1, domain, st2)

(* a scan that stops at the first virtual host with a matching pattern *)
findFirstMatchingVirtualHost(virtualHostList, domain) ==
  IF \E i \in 1..Len(virtualHostList) :
       \E j \in 1..Len(virtualHostList[i].domains) :
         domainMatch(domainPatternMatchType(virtualHostList[i].domains[j]),
                     virtualHostList[i].domains[j], domain)
    THEN CHOOSE i \in 1..Len(virtualHostList) :
           /\ \E j \in 1..Len(virtualHostList[i].domains) :
                domainMatch(domainPatternMatchType(virtualHostList[i].domains[j]),
                            virtualHostList[i].domains[j], domain)
           /\ \A k \in 1..(i - 1) :
                \A j \in 1..Len(virtualHostList[k].domains) :
                  ~domainMatch(domainPatternMatchType(virtualHostList[k].domains[j]),
                               virtualHostList[k].domains[j], domain)
    ELSE 0

findVirtualHostForDomain(virtualHostList, domain) ==
  ScanDomains(virtualHostList, 1, 1, domain,
              [targetVhost |-> 0, bestMatchType |-> INVALID_MATCH,
               longestMatch |-> 0]).targetVhost

(***************************************************************************)
(* Predicate Compiler.                                                     *)
(*                                                                         *)
(* Metadata is a function from header names to the list of values of that  *)
(* header.  Math.random() is one of the RandomSteps values k/RandomSteps,  *)
(* k in 0..RandomSteps-1; a product with an integer scale is rounded down, *)
(* which does not change its comparison with an integer bound.             *)
(***************************************************************************)
RandomSteps == 4

Draws == 0..(RandomSteps - 1)

randomTimes(draw, scale) == (draw * scale) \div RandomSteps

Digits == {"0", "1", "2", "3", "4", "5", "6", "7", "8", "9"}

DigitVal(c) == CASE c = "0" -> 0 [] c = "1" -> 1 [] c = "2" -> 2 [] c = "3" -> 3
                 [] c = "4" -> 4 [] c = "5" -> 5 [] c = "6" -> 6 [] c = "7" -> 7
                 [] c = "8" -> 8 [] c = "9" -> 9

(* numberRegex = /^-?\d+$/ *)
numberRegexTest(value) ==
  LET body == IF Len(value) > 0 /\ value[1] = "-" THEN Tail(value) ELSE value
  IN Len(body) > 0 /\ \A i \in 1..Len(body) : body[i] \in Digits

RECURSIVE DecimalValue(_)
DecimalValue(ds) ==
  IF Len(ds) = 0 THEN 0
  ELSE 10 * DecimalValue(SubSeq(ds, 1, Len(ds) - 1)) + DigitVal(ds[Len(ds)])

BigInt(value) ==
  IF value[1] = "-" THEN 0 - DecimalValue(Tail(value)) ELSE DecimalValue(value)

RECURSIVE join(_)
join(valueArray) ==
  IF Len(valueArray) = 1 THEN valueArray[1]
  ELSE valueArray[1] \o <<",">> \o join(Tail(valueArray))

metadataGet(metadata, name) ==
  IF name \in DOMAIN metadata THEN metadata[name] ELSE <<>>

ContentType == <<"c", "o", "n", "t", "e", "n", "t", "-", "t", "y", "p", "e">>

ApplicationGrpc ==
  <<"a", "p", "p", "l", "i", "c", "a", "t", "i", "o", "n", "/", "g", "r", "p", "c">>

HeaderSpecifiers ==
  {"exact_match", "range_match", "present_match", "prefix_match", "suffix_match"}

valueChecker(headerMatch, value) ==
  CASE headerMatch.header_match_specifier = "exact_match" -> value = headerMatch.value
    [] headerMatch.header_match_specifier = "range_match" ->
         /\ numberRegexTest(value)
         /\ headerMatch.start <= BigInt(value)
         /\ BigInt(value) < headerMatch.end
    [] headerMatch.header_match_specifier = "present_match" -> TRUE
    [] headerMatch.header_match_specifier = "prefix_match" ->
         startsWith(value, headerMatch.value)
    [] headerMatch.header_match_specifier = "suffix_match" ->
         endsWith(value, headerMatch.value)

headerMatcher(headerMatch, metadata) ==
  IF endsWith(headerMatch.name, <<"-", "b", "i", "n">>) THEN FALSE
  ELSE IF headerMatch.name = ContentType
    THEN valueChecker(headerMatch, ApplicationGrpc)
  ELSE IF Len(metadataGet(metadata, headerMatch.name)) = 0 THEN FALSE
  ELSE valueChecker(headerMatch, join(metadataGet(metadata, headerMatch.name)))

getPredicateForHeaderMatcher(headerMatch, metadata) ==
  IF headerMatch.header_match_specifier \notin HeaderSpecifiers THEN FALSE
  ELSE IF headerMatch.invert_match THEN ~headerMatcher(headerMatch, metadata)
  ELSE headerMatcher(headerMatch, metadata)

HUNDRED == 100
TEN_THOUSAND == 10000
MILLION == 1000000

RUNTIME_FRACTION_DENOMINATOR_VALUES(denominator) ==
  CASE denominator = "HUNDRED" -> HUNDRED
    [] denominator = "TEN_THOUSAND" -> TEN_THOUSAND
    [] denominator = "MILLION" -> MILLION

pathMatcher(routeMatch, methodName) ==
  CASE routeMatch.path_specifier = "prefix" ->
         IF routeMatch.case_sensitive
           THEN startsWith(methodName, routeMatch.value)
           ELSE startsWith(toLowerCase(methodName), toLowerCase(routeMatch.value))
    [] routeMatch.path_specifier = "path" ->
         IF routeMatch.case_sensitive
           THEN methodName = routeMatch.value
           ELSE toLowerCase(methodName) = toLowerCase(routeMatch.value)

runtimeFractionHandler(routeMatch, draw) ==
  IF ~routeMatch.runtime_fraction.present THEN TRUE
  ELSE randomTimes(draw,
         RUNTIME_FRACTION_DENOMINATOR_VALUES(routeMatch.runtime_fraction.denominator))
       < routeMatch.runtime_fraction.numerator

(* The predicate a route's match compiles to; draw is the value            *)
(* Math.random() yields if the fraction check is reached.                  *)
getPredicateForMatcher(routeMatch, methodName, metadata, draw) ==
  IF routeMatch.path_specifier \notin {"prefix", "path"} THEN FALSE
  ELSE /\ pathMatcher(routeMatch, methodName)
       /\ \A h \in 1..Len(routeMatch.headers) :
            getPredicateForHeaderMatcher(routeMatch.headers[h], metadata)
       /\ runtimeFractionHandler(routeMatch, draw)

(***************************************************************************)
(* Routing tables the control plane may deliver.  A table is named by an   *)
(* id; Table(id) is its content.  Weighted-cluster lists satisfy the       *)
(* validation rule the code relies on (part_000 line 372): the weights sum *)
(* to the total weight.                                                    *)
(***************************************************************************)
target == <<"a", "b">>

NoFraction == [present |-> FALSE, numerator |-> 0, denominator |-> "HUNDRED"]

Fraction(n, d) == [present |-> TRUE, numerator |-> n, denominator |-> d]

RouteMatch(spec, v, cs, hs, fr) ==
  [path_specifier |-> spec, value |-> v, case_sensitive |-> cs, headers |-> hs,
   runtime_fraction |-> fr]

ToCluster(c) ==
  [cluster_specifier |-> "cluster", cluster |-> c, clusters |-> <<>>,
   has_total_weight |-> FALSE, total_weight |-> 0]

ToWeighted(cs, hasTotal, total) ==
  [cluster_specifier |-> "weighted_clusters", cluster |-> "", clusters |-> cs,
   has_total_weight |-> hasTotal, total_weight |-> total]

ToClusterHeader ==
  [cluster_specifier |-> "cluster_header", cluster |-> "", clusters |-> <<>>,
   has_total_weight |-> FALSE, total_weight |-> 0]

HeaderRule(n, spec, v, inv) ==
  [name |-> n, header_match_specifier |-> spec, value |-> v, start |-> 0,
   end |-> 0, invert_match |-> inv]

TableIds == {"T_A", "T_AB", "T_B", "T_W", "T_N"}

Table(id) ==
  CASE id = "T_A" ->
         [virtual_hosts |-> <<
            [domains |-> << <<"a", "b">> >>,
             routes |-> << [match |-> RouteMatch("prefix", <<>>, TRUE, <<>>, NoFraction),
                            route |-> ToCluster("A")] >>] >>]
    [] id = "T_AB" ->
         [virtual_hosts |-> <<
            [domains |-> << <<"*">>, <<"a", "b">> >>,
             routes |-> << [match |-> RouteMatch("path", <<"/", "a">>, TRUE, <<>>, NoFraction),
                            route |-> ToCluster("A")],
                           [match |-> RouteMatch("prefix", <<"/">>, TRUE, <<>>, NoFraction),
                            route |-> ToCluster("B")] >>] >>]
    [] id = "T_B" ->
         [virtual_hosts |-> <<
            [domains |-> << <<"c">> >>,
             routes |-> << [match |-> RouteMatch("prefix", <<>>, TRUE, <<>>, NoFraction),
                            route |-> ToCluster("C")] >>],
            [domains |-> << <<"*", "b">> >>,
             routes |-> << [match |-> RouteMatch("prefix", <<>>, TRUE, <<>>, NoFraction),
                            route |-> ToClusterHeader],
                           [match |-> RouteMatch("prefix", <<"/">>, TRUE, <<>>,
                                                 Fraction(50, "HUNDRED")),
                            route |-> ToCluster("B")] >>] >>]
    [] id = "T_W" ->
         [virtual_hosts |-> <<
            [domains |-> << <<"a", "*">> >>,
             routes |-> << [match |-> RouteMatch("prefix", <<"/", "A">>, FALSE,
                                        << HeaderRule(<<"h">>, "exact_match", <<"1">>, FALSE) >>,
                                        NoFraction),
                            route |-> ToWeighted(<< [name |-> "B", weight |-> 1],
                                                    [name |-> "C", weight |-> 3] >>,
                                                 TRUE, 4)] >>] >>]
    [] id = "T_N" ->
         [virtual_hosts |-> <<
            [domains |-> << <<"c">>, <<"a", "*", "b">> >>,
             routes |-> << [match |-> RouteMatch("prefix", <<>>, TRUE, <<>>, NoFraction),
                            route |-> ToCluster("A")] >>] >>]

RouteConfigNames == {"r1", "r2"}

Methods == { <<"/", "a">>, <<"/", "B">>, <<"x">> }

Metadatas == { <<>>, (<<"h">> :> << <<"1">> >>) }

MaxCalls == 2

(***************************************************************************)
(* XdsResolver state.                                                      *)
(*   routing                GRPC_XDS_EXPERIMENTAL_ROUTING                  *)
(*   listenerWatchers,                                                     *)
(*   routeWatchers          the xDS client's registrations of this         *)
(*                          resolver's ldsWatcher and rdsWatcher           *)
(*   destroyed              the channel has called destroy()               *)
(*   events                 calls made on the ResolverListener by the last *)
(*                          handler that ran                               *)
(*   lbConfig,                                                             *)
(*   configSelector         what the last onSuccessfulResolution passed:   *)
(*                          the load-balancing config and the routing      *)
(*                          function (the id of the table whose routes the *)
(*                          closure captured, "null" for none)             *)
(*   pending                per cluster, the matches that returned it and  *)
(*                          whose onCommitted has not been called yet      *)
(*   lastOp                 the handler that ran last and its argument     *)
(***************************************************************************)
VARIABLES routing, hasReportedSuccess, isLdsWatcherActive, latestRouteConfigName,
          latestRouteConfig, clusterRefcounts, listenerWatchers, routeWatchers,
          destroyed, events, lbConfig, configSelector, pending, lastOp

xdsVars == <<routing, hasReportedSuccess, isLdsWatcherActive, latestRouteConfigName,
             latestRouteConfig, clusterRefcounts, listenerWatchers, routeWatchers,
             destroyed, events, lbConfig, configSelector, pending, lastOp>>

ClusterNames == {"A", "B", "C", ""}

Op(o, a, st) == [op |-> o, arg |-> a, status |-> st]

(* the record of a run of the routing function: its result and its inputs *)
Select(a, st, methodName, metadata, fracDraws, pickDraw) ==
  [op |-> "select", arg |-> a, status |-> st,
   input |-> [methodName |-> methodName, metadata |-> metadata,
              fracDraws |-> fracDraws, pickDraw |-> pickDraw]]

Truthy(str) == str # "null" /\ str # ""

(* reportResolutionError: one listener.onError call, code UNAVAILABLE *)
reportResolutionError(reason) ==
  << [type |-> "onError", code |-> "UNAVAILABLE", details |-> reason,
      clusters |-> {}, selector |-> "null"] >>

onSuccessfulResolution(kind, clusters, selector) ==
  << [type |-> "onSuccessfulResolution", code |-> "OK", details |-> kind,
      clusters |-> clusters, selector |-> selector] >>

(* xDS client registrations *)
addRouteWatcher(watchers, name) == [watchers EXCEPT ![name] = @ + 1]

removeRouteWatcher(watchers, name) ==
  IF name \in DOMAIN watchers /\ watchers[name] > 0
    THEN [watchers EXCEPT ![name] = @ - 1]
    ELSE watchers

rdsWatcherRegistered == \E n \in DOMAIN routeWatchers : routeWatchers[n] > 0

(* refCluster / unrefCluster on the table refs *)
refClusterAsFlag(refs, clusterName) ==
  IF clusterName \in DOMAIN refs
    THEN [refs EXCEPT ![clusterName].refCount = 1]
    ELSE refs

refCluster(refs, clusterName) ==
  IF clusterName \in DOMAIN refs
    THEN [refs EXCEPT ![clusterName].refCount = @ + 1]
    ELSE refs

unrefDecrement(refs, clusterName) ==
  [refs EXCEPT ![clusterName].refCount = @ - 1]

unrefDeletesAtZero(refs, clusterName) ==
  /\ clusterName \in DOMAIN refs
  /\ unrefDecrement(refs, clusterName)[clusterName].refCount = 0

unrefDeletes(refs, clusterName) ==
  /\ clusterName \in DOMAIN refs
  /\ ~unrefDecrement(refs, clusterName)[clusterName].inLastConfig
  /\ unrefDecrement(refs, clusterName)[clusterName].refCount = 0

deleteEntry(refs, name) == [n \in DOMAIN refs \ {name} |-> refs[n]]

(* handleRouteConfig, lines 343-379: the routes that survive and their clusters *)
routeClusters(route) ==
  CASE route.route.cluster_specifier = "cluster" -> {route.route.cluster}
    [] route.route.cluster_specifier = "weighted_clusters" ->
         {route.route.clusters[k].name : k \in 1..Len(route.route.clusters)}
    [] OTHER -> {}

isCompiled(route) == route.route.cluster_specifier # "cluster_header"

matchList(routes) == SelectSeq(routes, isCompiled)

allConfigClusters(routes) == UNION {routeClusters(routes[i]) : i \in 1..Len(routes)}

(* lines 380-389 *)
markAbsent(refs, all) ==
  [n \in {m \in DOMAIN refs : m \in all \/ refs[m].refCount # 0} |->
     IF n \in all THEN refs[n] ELSE [refs[n] EXCEPT !.inLastConfig = FALSE]]

(* lines 390-397 *)
addNew(refs, all) ==
  [n \in DOMAIN refs \cup all |->
     IF n \notin all THEN refs[n]
     ELSE IF n \in DOMAIN refs THEN [refs[n] EXCEPT !.inLastConfig = TRUE]
     ELSE [inLastConfig |-> TRUE, refCount |-> 0]]

(* marks and removes, without the loop that adds the new clusters *)
reconcileWithoutAdding(refs, all) == markAbsent(refs, all)

reconcile(refs, all) == addNew(markAbsent(refs, all), all)

(* weighted_clusters routeAction, lines 356-374 *)
DEFAULT_TOTAL_WEIGHT == 100

RECURSIVE numeratorAt(_, _)
numeratorAt(clusters, k) ==
  IF k = 0 THEN 0 ELSE numeratorAt(clusters, k - 1) + clusters[k].weight

(* a scan that also stops at a cumulative bound equal to the draw *)
RECURSIVE firstChoiceAtOrBelow(_, _, _)
firstChoiceAtOrBelow(clusters, randomNumber, k) ==
  IF k > Len(clusters) THEN ""
  ELSE IF randomNumber <= numeratorAt(clusters, k) THEN clusters[k].name
  ELSE firstChoiceAtOrBelow(clusters, randomNumber, k + 1)

RECURSIVE firstChoice(_, _, _)
firstChoice(clusters, randomNumber, k) ==
  IF k > Len(clusters) THEN ""
  ELSE IF randomNumber < numeratorAt(clusters, k) THEN clusters[k].name
  ELSE firstChoice(clusters, randomNumber, k + 1)

routeAction(route, draw) ==
  IF route.route.cluster_specifier = "cluster" THEN route.route.cluster
  ELSE firstChoice(route.route.clusters,
                   randomTimes(draw, IF route.route.has_total_weight
                                       THEN route.route.total_weight
                                       ELSE DEFAULT_TOTAL_WEIGHT),
                   1)

(* the routes the routing function published from table id evaluates *)
selectorRoutes(id) ==
  matchList(Table(id).virtual_hosts[
              findVirtualHostForDomain(Table(id).virtual_hosts, target)].routes)

(* configSelector, lines 398-420: the index of the first route whose       *)
(* matcher holds, 0 if none; fracDraws[i] is the draw of route i's         *)
(* fraction check                                                          *)
RECURSIVE lastMatch(_, _, _, _, _)
lastMatch(list, methodName, metadata, fracDraws, i) ==
  IF i > Len(list) THEN 0
  ELSE LET later == lastMatch(list, methodName, metadata, fracDraws, i + 1)
       IN IF later # 0 THEN later
          ELSE IF getPredicateForMatcher(list[i].match, methodName, metadata, fracDraws[i])
            THEN i
          ELSE 0

RECURSIVE firstMatch(_, _, _, _, _)
firstMatch(list, methodName, metadata, fracDraws, i) ==
  IF i > Len(list) THEN 0
  ELSE IF getPredicateForMatcher(list[i].match, methodName, metadata, fracDraws[i])
    THEN i
  ELSE firstMatch(list, methodName, metadata, fracDraws, i + 1)

(* legacy branch, lines 433-451: the cluster of the first virtual host     *)
(* that lists the target and whose last route is the default route;        *)
(* "null" if there is none                                                 *)
RECURSIVE legacyCluster(_, _)
legacyCluster(virtualHosts, i) ==
  IF i > Len(virtualHosts) THEN "null"
  ELSE LET virtualHost == virtualHosts[i]
           route == virtualHost.routes[Len(virtualHost.routes)]
       IN IF /\ \E d \in 1..Len(virtualHost.domains) : virtualHost.domains[d] = target
             /\ route.match.path_specifier = "prefix"
             /\ route.match.value = <<>>
             /\ route.route.cluster_specifier = "cluster"
             /\ route.route.cluster # ""
            THEN route.route.cluster
            ELSE legacyCluster(virtualHosts, i + 1)

(* lines 338-397: the ref-count table handleRouteConfig leaves when route  *)
(* matching is enabled; untouched when no virtual host matches             *)
reconcileTableAlways(routeConfig, refs) ==
  LET hosts == Table(routeConfig).virtual_hosts
      virtualHost == findVirtualHostForDomain(hosts, target)
  IN IF virtualHost = 0 THEN reconcile(refs, {})
     ELSE reconcile(refs, allConfigClusters(matchList(hosts[virtualHost].routes)))

reconcileTable(routeConfig, refs) ==
  LET hosts == Table(routeConfig).virtual_hosts
      virtualHost == findVirtualHostForDomain(hosts, target)
  IN IF virtualHost = 0 THEN refs
     ELSE reconcile(refs, allConfigClusters(matchList(hosts[virtualHost].routes)))

(* lines 421-424: the keys of clusterConfigMap *)
clusterConfigMapOfLastConfig(refs) == {n \in DOMAIN refs : refs[n].inLastConfig}

clusterConfigMap(refs) == DOMAIN refs

(* handleRouteConfig(routeConfig) run on the ref-count table refs *)
handleRouteConfig(routeConfig, refs) ==
  /\ latestRouteConfig' = routeConfig
  /\ IF routing
       THEN LET newRefs == reconcileTable(routeConfig, refs)
            IN /\ clusterRefcounts' = newRefs
               /\ IF findVirtualHostForDomain(Table(routeConfig).virtual_hosts, target) = 0
                    THEN /\ events' = reportResolutionError("No matching route found")
                         /\ UNCHANGED <<lbConfig, configSelector, hasReportedSuccess>>
                    ELSE /\ lbConfig' = [kind |-> "xds_cluster_manager",
                                          clusters |-> clusterConfigMap(newRefs)]
                         /\ configSelector' = routeConfig
                         /\ events' = onSuccessfulResolution("xds_cluster_manager",
                                         clusterConfigMap(newRefs), routeConfig)
                         /\ UNCHANGED hasReportedSuccess
       ELSE LET cluster == legacyCluster(Table(routeConfig).virtual_hosts, 1)
            IN /\ clusterRefcounts' = refs
               /\ IF cluster # "null"
                    THEN /\ lbConfig' = [kind |-> "cds", clusters |-> {cluster}]
                         /\ configSelector' = "null"
                         /\ events' = onSuccessfulResolution("cds", {cluster}, "null")
                         /\ hasReportedSuccess' = TRUE
                    ELSE /\ events' = reportResolutionError("No matching route found")
                         /\ UNCHANGED <<lbConfig, configSelector, hasReportedSuccess>>

(***************************************************************************)
(* XdsResolver operations.                                                 *)
(***************************************************************************)
InitXds ==
  /\ routing \in BOOLEAN
  /\ hasReportedSuccess = FALSE
  /\ isLdsWatcherActive = FALSE
  /\ latestRouteConfigName = "null"
  /\ latestRouteConfig = "null"
  /\ clusterRefcounts = <<>>
  /\ listenerWatchers = 0
  /\ routeWatchers = [n \in RouteConfigNames |-> 0]
  /\ destroyed = FALSE
  /\ events = <<>>
  /\ lbConfig = [kind |-> "none", clusters |-> {}]
  /\ configSelector = "null"
  /\ pending = [c \in ClusterNames |-> 0]
  /\ lastOp = Op("constructor", "", "")

updateResolution ==
  /\ ~destroyed
  /\ IF ~isLdsWatcherActive
       THEN /\ listenerWatchers' = listenerWatchers + 1
            /\ isLdsWatcherActive' = TRUE
       ELSE UNCHANGED <<listenerWatchers, isLdsWatcherActive>>
  /\ events' = <<>>
  /\ lastOp' = Op("updateResolution", "", "")
  /\ UNCHANGED <<routing, hasReportedSuccess, latestRouteConfigName, latestRouteConfig,
                 clusterRefcounts, routeWatchers, destroyed, lbConfig, configSelector,
                 pending>>

destroy ==
  /\ ~destroyed
  /\ destroyed' = TRUE
  /\ listenerWatchers' = IF listenerWatchers > 0 THEN listenerWatchers - 1 ELSE 0
  /\ routeWatchers' = IF Truthy(latestRouteConfigName)
                        THEN removeRouteWatcher(routeWatchers, latestRouteConfigName)
                        ELSE routeWatchers
  /\ events' = <<>>
  /\ lastOp' = Op("destroy", "", "")
  /\ UNCHANGED <<routing, hasReportedSuccess, isLdsWatcherActive, latestRouteConfigName,
                 latestRouteConfig, clusterRefcounts, lbConfig, configSelector, pending>>

(* ldsWatcher.onValidUpdate, route_specifier 'rds' *)
ldsOnValidUpdateRds(routeConfigName) ==
  /\ listenerWatchers > 0
  /\ IF latestRouteConfigName # routeConfigName
       THEN /\ routeWatchers' =
                 addRouteWatcher(IF latestRouteConfigName # "null"
                                   THEN removeRouteWatcher(routeWatchers,
                                                           latestRouteConfigName)
                                   ELSE routeWatchers,
                                 routeConfigName)
            /\ latestRouteConfigName' = routeConfigName
       ELSE UNCHANGED <<routeWatchers, latestRouteConfigName>>
  /\ events' = <<>>
  /\ lastOp' = Op("ldsRds", routeConfigName, "")
  /\ UNCHANGED <<routing, hasReportedSuccess, isLdsWatcherActive, latestRouteConfig,
                 clusterRefcounts, listenerWatchers, destroyed, lbConfig,
                 configSelector, pending>>

(* ldsWatcher.onValidUpdate, route_specifier 'route_config' *)
ldsOnValidUpdateInline(routeConfig) ==
  /\ listenerWatchers > 0
  /\ routeWatchers' = IF Truthy(latestRouteConfigName)
                        THEN removeRouteWatcher(routeWatchers, latestRouteConfigName)
                        ELSE routeWatchers
  /\ handleRouteConfig(routeConfig, clusterRefcounts)
  /\ lastOp' = Op("ldsInline", routeConfig, "")
  /\ UNCHANGED <<routing, isLdsWatcherActive, latestRouteConfigName, listenerWatchers,
                 destroyed, pending>>

rdsOnValidUpdate(update) ==
  /\ rdsWatcherRegistered
  /\ handleRouteConfig(update, clusterRefcounts)
  /\ lastOp' = Op("rdsUpdate", update, "")
  /\ UNCHANGED <<routing, isLdsWatcherActive, latestRouteConfigName, listenerWatchers,
                 routeWatchers, destroyed, pending>>

(* onTransientError of either watcher *)
onTransientError(details) ==
  IF ~hasReportedSuccess THEN reportResolutionError(details) ELSE <<>>

ldsOnTransientError ==
  /\ listenerWatchers > 0
  /\ events' = onTransientError("transient")
  /\ lastOp' = Op("ldsTransientError", "", "")
  /\ UNCHANGED <<routing, hasReportedSuccess, isLdsWatcherActive, latestRouteConfigName,
                 latestRouteConfig, clusterRefcounts, listenerWatchers, routeWatchers,
                 destroyed, lbConfig, configSelector, pending>>

rdsOnTransientError ==
  /\ rdsWatcherRegistered
  /\ events' = onTransientError("transient")
  /\ lastOp' = Op("rdsTransientError", "", "")
  /\ UNCHANGED <<routing, hasReportedSuccess, isLdsWatcherActive, latestRouteConfigName,
                 latestRouteConfig, clusterRefcounts, listenerWatchers, routeWatchers,
                 destroyed, lbConfig, configSelector, pending>>

(* onResourceDoesNotExist of either watcher *)
onResourceDoesNotExistUnlessSuccess(what) ==
  IF ~hasReportedSuccess THEN reportResolutionError(what) ELSE <<>>

onResourceDoesNotExist(what) == reportResolutionError(what)

ldsOnResourceDoesNotExist ==
  /\ listenerWatchers > 0
  /\ events' = onResourceDoesNotExist("Listener does not exist")
  /\ lastOp' = Op("ldsDoesNotExist", "", "")
  /\ UNCHANGED <<routing, hasReportedSuccess, isLdsWatcherActive, latestRouteConfigName,
                 latestRouteConfig, clusterRefcounts, listenerWatchers, routeWatchers,
                 destroyed, lbConfig, configSelector, pending>>

rdsOnResourceDoesNotExist ==
  /\ rdsWatcherRegistered
  /\ events' = onResourceDoesNotExist("Route config does not exist")
  /\ lastOp' = Op("rdsDoesNotExist", "", "")
  /\ UNCHANGED <<routing, hasReportedSuccess, isLdsWatcherActive, latestRouteConfigName,
                 latestRouteConfig, clusterRefcounts, listenerWatchers, routeWatchers,
                 destroyed, lbConfig, configSelector, pending>>

inFlight == pending["A"] + pending["B"] + pending["C"] + pending[""]

(* A call runs the published routing function.  selected is the index of   *)
(* the first matching route of the captured list (0: none).                *)
selectCall(methodName, metadata, fracDraws, pickDraw) ==
  LET list == selectorRoutes(configSelector)
      selected == firstMatch(list, methodName, metadata, fracDraws, 1)
      clusterName == routeAction(list[selected], pickDraw)
  IN IF selected # 0
       THEN /\ inFlight < MaxCalls
            /\ clusterRefcounts' = refCluster(clusterRefcounts, clusterName)
            /\ pending' = [pending EXCEPT ![clusterName] = @ + 1]
            /\ lastOp' = Select(clusterName, "OK", methodName, metadata, fracDraws, pickDraw)
       ELSE /\ lastOp' = Select("", "UNAVAILABLE", methodName, metadata, fracDraws, pickDraw)
            /\ UNCHANGED <<clusterRefcounts, pending>>

configSelectorCall(methodName, metadata, fracDraws, pickDraw) ==
  /\ configSelector # "null"
  /\ ~destroyed
  /\ selectCall(methodName, metadata, fracDraws, pickDraw)
  /\ events' = <<>>
  /\ UNCHANGED <<routing, hasReportedSuccess, isLdsWatcherActive, latestRouteConfigName,
                 latestRouteConfig, listenerWatchers, routeWatchers, destroyed,
                 lbConfig, configSelector>>

(* onCommitted of a match that returned clusterName: unrefCluster *)
unrefCluster(clusterName) ==
  IF clusterName \in DOMAIN clusterRefcounts
    THEN IF unrefDeletes(clusterRefcounts, clusterName)
           THEN /\ handleRouteConfig(latestRouteConfig,
                     deleteEntry(unrefDecrement(clusterRefcounts, clusterName),
                                 clusterName))
                /\ lastOp' = Op("commit", clusterName, "deleted")
           ELSE /\ clusterRefcounts' = unrefDecrement(clusterRefcounts, clusterName)
                /\ events' = <<>>
                /\ lastOp' = Op("commit", clusterName, "kept")
                /\ UNCHANGED <<hasReportedSuccess, latestRouteConfig, lbConfig,
                               configSelector>>
    ELSE /\ events' = <<>>
         /\ lastOp' = Op("commit", clusterName, "absent")
         /\ UNCHANGED <<hasReportedSuccess, latestRouteConfig, clusterRefcounts,
                        lbConfig, configSelector>>

onCommitted(clusterName) ==
  /\ pending[clusterName] > 0
  /\ pending' = [pending EXCEPT ![clusterName] = @ - 1]
  /\ unrefCluster(clusterName)
  /\ UNCHANGED <<routing, isLdsWatcherActive, latestRouteConfigName, listenerWatchers,
                 routeWatchers, destroyed>>

(***************************************************************************)
(* ResolvingCall state.                                                    *)
(*   child                 TRUE when the inner call exists (child # null)  *)
(*   metadataSet           metadata and listener are set (start was called)*)
(*   waitForReady          metadata.getOptions().waitForReady              *)
(*   deadlineTimer         the pending setTimeout: armed, and when it fires*)
(*   ticks                 callbacks queued with process.nextTick          *)
(*   now                   the clock                                       *)
(*   queued                entries of this call in the channel's list of   *)
(*                         calls waiting for configuration                 *)
(*   childOps, childDeadline, childStatusSent                              *)
(*                         the inner call: the operations it received, the *)
(*                         deadline it was created with, whether it has    *)
(*                         reported its status                             *)
(*   watcherCalls, listenerCalls                                           *)
(*                         invocations of the status watchers and of       *)
(*                         listener.onReceiveStatus                        *)
(*   issued                what the caller requested before the inner call *)
(*                         existed: a read, the last message, a half-close *)
(*   nDirect               the caller's operations made when the inner     *)
(*                         call existed                                    *)
(*   firstEnd              the status of the first outputStatus call       *)
(*   options               the constructor's options argument: deadline,   *)
(*                         parentCall (present or not), the DEADLINE bit   *)
(*                         of flags, parentCall.getDeadline(); read by the *)
(*                         constructor only                                *)
(***************************************************************************)
VARIABLES child, readPending, pendingMessage, pendingHalfClose, ended, metadataSet,
          waitForReady, deadline, statusWatchers, deadlineTimer, ticks,
          now, queued, childOps, childDeadline, childStatusSent,
          watcherCalls, listenerCalls, issued, nDirect, firstEnd, options

callVars == <<child, readPending, pendingMessage, pendingHalfClose, ended, metadataSet,
              waitForReady, deadline, statusWatchers, deadlineTimer, ticks,
              now, queued, childOps, childDeadline, childStatusSent,
              watcherCalls, listenerCalls, issued, nDirect, firstEnd, options>>

(***************************************************************************)
(* One application of a function of the resolver to arguments:             *)
(*   fnCall     the function's name and its arguments                      *)
(*   fnDone     the function has returned                                  *)
(*   fnResult   what it returned                                           *)
(***************************************************************************)
VARIABLES fnCall, fnDone, fnResult

fnVars == <<fnCall, fnDone, fnResult>>

noFn == fnCall = [fn |-> "none"] /\ fnDone = FALSE /\ fnResult = 0

vars == <<xdsVars, callVars, fnVars>>

Infinity == 1000000

MaxTime == 2

MaxDirectOps == 1

(* message contents; 0 stands for null in pendingMessage *)
Messages == {1, 2}

MaxWatchers == 1

Deadlines == {0, 2, 3, Infinity}

ParentDeadlines == {1, Infinity}

minDeadline(a, b) == IF a <= b THEN a ELSE b

getRelativeTimeout(d) == d - now

NoTimer == [armed |-> FALSE, at |-> 0]

Tick(fn, status) == [fn |-> fn, status |-> status]

ChildOp(op, message) == [op |-> op, message |-> message, status |-> ""]

(* child.cancelWithStatus(status, details) *)
CancelOp(status) == [op |-> "cancelWithStatus", message |-> 0, status |-> status]

(* INAPPROPRIATE_CONTROL_PLANE_CODES of control-plane-status.ts *)
restrictControlPlaneStatusCode(code) ==
  IF code \in {"OK", "INVALID_ARGUMENT", "NOT_FOUND", "ALREADY_EXISTS",
               "FAILED_PRECONDITION", "ABORTED", "OUT_OF_RANGE", "DATA_LOSS"}
    THEN "INTERNAL"
    ELSE code

ConfigResult(type, status, hasTimeout, seconds) ==
  [type |-> type, status |-> status, hasTimeout |-> hasTimeout, seconds |-> seconds]

(* what channel.getConfig may return *)
ConfigResults ==
  {ConfigResult("NONE", "", FALSE, 0), ConfigResult("ERROR", "UNAVAILABLE", FALSE, 0),
   ConfigResult("SUCCESS", "NOT_FOUND", FALSE, 0),
   ConfigResult("SUCCESS", "OK", FALSE, 0), ConfigResult("SUCCESS", "OK", TRUE, 1)}

(* the state runDeadlineTimer leaves, given the tick queue tq *)
runDeadlineTimerTimer(d) ==
  IF d # Infinity /\ getRelativeTimeout(d) > 0 THEN [armed |-> TRUE, at |-> d] ELSE NoTimer

runDeadlineTimerTicksPastOnly(d, tq) ==
  IF d # Infinity /\ getRelativeTimeout(d) < 0
    THEN Append(tq, Tick("handleDeadline", "")) ELSE tq

runDeadlineTimerTicks(d, tq) ==
  IF d # Infinity /\ getRelativeTimeout(d) <= 0
    THEN Append(tq, Tick("handleDeadline", "")) ELSE tq

(* the constructor, lines 43-66.  The parent's 'cancelled' event calls      *)
(* cancelWithStatus(CANCELLED, ...): it is one of the cancelWithStatus     *)
(* steps below.                                                            *)
constructor(optDeadline, hasParent, propagateDeadline, parentDeadline) ==
  /\ child = FALSE
  /\ readPending = FALSE
  /\ pendingMessage = 0
  /\ pendingHalfClose = FALSE
  /\ ended = FALSE
  /\ metadataSet = FALSE
  /\ waitForReady = FALSE
  /\ statusWatchers = 0
  /\ now = 1
  /\ deadline = IF hasParent /\ propagateDeadline
                  THEN minDeadline(optDeadline, parentDeadline)
                  ELSE optDeadline
  /\ deadlineTimer = runDeadlineTimerTimer(deadline)
  /\ ticks = runDeadlineTimerTicks(deadline, <<>>)
  /\ queued = 0
  /\ childOps = <<>>
  /\ childDeadline = Infinity
  /\ childStatusSent = FALSE
  /\ watcherCalls = <<>>
  /\ listenerCalls = <<>>
  /\ issued = [read |-> FALSE, message |-> 0, halfClose |-> FALSE]
  /\ nDirect = 0
  /\ firstEnd = "null"
  /\ options = [deadline |-> optDeadline, parentCall |-> hasParent,
                propagateDeadline |-> propagateDeadline,
                parentDeadline |-> parentDeadline]

(* the options calls are constructed with: no parent call; a parent call  *)
(* with the DEADLINE flag, its deadline earlier or later than the call's   *)
(* own; a parent call with an earlier deadline and no DEADLINE flag        *)
ConstructorOptions ==
  {[deadline |-> d, parentCall |-> FALSE, propagateDeadline |-> FALSE,
    parentDeadline |-> Infinity] : d \in Deadlines}
  \cup {[deadline |-> d, parentCall |-> TRUE, propagateDeadline |-> TRUE,
         parentDeadline |-> pd] : d \in {2, Infinity}, pd \in ParentDeadlines}
  \cup {[deadline |-> 2, parentCall |-> TRUE, propagateDeadline |-> FALSE,
         parentDeadline |-> 1]}

InitCall ==
  \E o \in ConstructorOptions :
     constructor(o.deadline, o.parentCall, o.propagateDeadline, o.parentDeadline)

(* outputStatus(status), with tq the tick queue at the time of the call *)
outputStatusEveryTime(status, tq) ==
  /\ firstEnd' = IF firstEnd = "null" THEN status ELSE firstEnd
  /\ ended' = TRUE
  /\ watcherCalls' = watcherCalls \o
       [i \in 1..statusWatchers |-> [watcher |-> i, status |-> status]]
  /\ ticks' = Append(tq, Tick("onReceiveStatus", status))

outputStatus(status, tq) ==
  /\ firstEnd' = IF firstEnd = "null" THEN status ELSE firstEnd
  /\ IF ~ended
       THEN /\ ended' = TRUE
            /\ watcherCalls' = watcherCalls \o
                 [i \in 1..statusWatchers |-> [watcher |-> i, status |-> status]]
            /\ ticks' = Append(tq, Tick("onReceiveStatus", status))
       ELSE /\ ticks' = tq
            /\ UNCHANGED <<ended, watcherCalls>>

(* cancelWithStatus(status, details) *)
cancelWithStatusInnerFirst(status, tq) ==
  IF child
    THEN /\ childOps' = Append(childOps, CancelOp(status))
         /\ ticks' = tq
         /\ UNCHANGED <<firstEnd, ended, watcherCalls>>
    ELSE /\ childOps' = childOps
         /\ outputStatus(status, tq)

cancelWithStatusBody(status, tq) ==
  /\ childOps' = IF child THEN Append(childOps, CancelOp(status)) ELSE childOps
  /\ outputStatus(status, tq)

(* the operations getConfig replays on the new inner call, lines 153-172 *)
replayMessageFirst ==
  <<ChildOp("start", 0)>>
  \o (IF pendingMessage # 0
        THEN <<ChildOp("sendMessageWithContext", pendingMessage)>> ELSE <<>>)
  \o (IF readPending THEN <<ChildOp("startRead", 0)>> ELSE <<>>)
  \o (IF pendingHalfClose THEN <<ChildOp("halfClose", 0)>> ELSE <<>>)

replay ==
  <<ChildOp("start", 0)>>
  \o (IF readPending THEN <<ChildOp("startRead", 0)>> ELSE <<>>)
  \o (IF pendingMessage # 0
        THEN <<ChildOp("sendMessageWithContext", pendingMessage)>> ELSE <<>>)
  \o (IF pendingHalfClose THEN <<ChildOp("halfClose", 0)>> ELSE <<>>)

(* channel.queueCallForConfig(this), on the number q of entries of this    *)
(* call in the channel's list                                              *)
queueCallForConfigTwice(q) == q + 2

queueCallForConfig(q) == q + 1

(* lines 138-148: the deadline after the merge of methodConfig.timeout *)
mergedDeadlineFromConfigOnly(d, configResult) ==
  IF configResult.hasTimeout THEN now + configResult.seconds ELSE d

mergedDeadline(d, configResult) ==
  IF configResult.hasTimeout
    THEN minDeadline(d, now + configResult.seconds)
    ELSE d

(* the check of the ended flag at the entry of getConfig, lines 108-110 *)
getConfigNeverReturnsEarly == FALSE

getConfigReturnsEarly == ended

(* getConfig with configResult the value of channel.getConfig; q is the    *)
(* number of entries of this call in the channel's list when it runs       *)
getConfig(configResult, q) ==
  IF getConfigReturnsEarly
    THEN /\ queued' = q
         /\ UNCHANGED <<child, ended, deadline, ticks, childOps, childDeadline,
                        watcherCalls, firstEnd>>
  ELSE IF configResult.type = "NONE"
    THEN /\ queued' = queueCallForConfig(q)
         /\ UNCHANGED <<child, ended, deadline, ticks, childOps, childDeadline,
                        watcherCalls, firstEnd>>
  ELSE IF configResult.type = "ERROR"
    THEN IF waitForReady'
           THEN /\ queued' = queueCallForConfig(q)
                /\ UNCHANGED <<child, ended, deadline, ticks, childOps, childDeadline,
                               watcherCalls, firstEnd>>
           ELSE /\ queued' = q
                /\ outputStatus(configResult.status, ticks)
                /\ UNCHANGED <<child, deadline, childOps, childDeadline>>
  ELSE IF configResult.status # "OK"
    THEN /\ queued' = q
         /\ outputStatus(restrictControlPlaneStatusCode(configResult.status), ticks)
         /\ UNCHANGED <<child, deadline, childOps, childDeadline>>
  ELSE /\ queued' = q
       /\ deadline' = mergedDeadline(deadline, configResult)
       /\ child' = TRUE
       /\ childDeadline' = deadline'
       /\ childOps' = childOps \o replay
       /\ UNCHANGED <<ended, ticks, watcherCalls, firstEnd>>

(***************************************************************************)
(* ResolvingCall operations.                                               *)
(***************************************************************************)
start(wfr, configResult) ==
  /\ ~metadataSet
  /\ metadataSet' = TRUE
  /\ waitForReady' = wfr
  /\ getConfig(configResult, queued)
  /\ UNCHANGED <<readPending, pendingMessage, pendingHalfClose, statusWatchers,
                 deadlineTimer, now, childStatusSent, listenerCalls,
                 issued, nDirect>>

(* the channel takes the call off its list and calls getConfig *)
channelGetConfig(configResult) ==
  /\ queued > 0
  /\ UNCHANGED waitForReady
  /\ getConfig(configResult, queued - 1)
  /\ UNCHANGED <<readPending, pendingMessage, pendingHalfClose, metadataSet,
                 statusWatchers, deadlineTimer, now, childStatusSent,
                 listenerCalls, issued, nDirect>>

(* the channel takes the call off its list and calls reportResolverError *)
reportResolverErrorAlwaysEnds(status) ==
  /\ queued > 0
  /\ queued' = queued - 1
  /\ outputStatus(status, ticks)
  /\ UNCHANGED <<child, readPending, pendingMessage, pendingHalfClose, metadataSet,
                 waitForReady, deadline, statusWatchers, deadlineTimer, now, childOps,
                 childDeadline, childStatusSent, listenerCalls, issued, nDirect>>

reportResolverError(status) ==
  /\ queued > 0
  /\ IF waitForReady
       THEN UNCHANGED <<queued, ended, ticks, watcherCalls, firstEnd>>
       ELSE /\ queued' = queued - 1
            /\ outputStatus(status, ticks)
  /\ UNCHANGED <<child, readPending, pendingMessage, pendingHalfClose, metadataSet,
                 waitForReady, deadline, statusWatchers, deadlineTimer, now, childOps, childDeadline, childStatusSent, listenerCalls, issued,
                 nDirect>>

cancelWithStatus(status) ==
  /\ IF child
       THEN nDirect < MaxDirectOps /\ nDirect' = nDirect + 1
       ELSE UNCHANGED nDirect
  /\ cancelWithStatusBody(status, ticks)
  /\ UNCHANGED <<child, readPending, pendingMessage, pendingHalfClose, metadataSet,
                 waitForReady, deadline, statusWatchers, deadlineTimer, now, queued, childDeadline, childStatusSent, listenerCalls, issued>>

sendMessageWithContext(message) ==
  /\ IF child
       THEN /\ nDirect < MaxDirectOps
            /\ nDirect' = nDirect + 1
            /\ childOps' = Append(childOps, ChildOp("sendMessageWithContext", message))
            /\ UNCHANGED <<pendingMessage, issued>>
       ELSE /\ pendingMessage' = message
            /\ issued' = [issued EXCEPT !.message = message]
            /\ UNCHANGED <<childOps, nDirect>>
  /\ UNCHANGED <<child, readPending, pendingHalfClose, ended, metadataSet, waitForReady,
                 deadline, statusWatchers, deadlineTimer, ticks, now,
                 queued, childDeadline, childStatusSent, watcherCalls, listenerCalls,
                 firstEnd>>

startRead ==
  /\ IF child
       THEN /\ nDirect < MaxDirectOps
            /\ nDirect' = nDirect + 1
            /\ childOps' = Append(childOps, ChildOp("startRead", 0))
            /\ UNCHANGED <<readPending, issued>>
       ELSE /\ readPending' = TRUE
            /\ issued' = [issued EXCEPT !.read = TRUE]
            /\ UNCHANGED <<childOps, nDirect>>
  /\ UNCHANGED <<child, pendingMessage, pendingHalfClose, ended, metadataSet,
                 waitForReady, deadline, statusWatchers, deadlineTimer, ticks,
                 now, queued, childDeadline, childStatusSent,
                 watcherCalls, listenerCalls, firstEnd>>

halfClose ==
  /\ IF child
       THEN /\ nDirect < MaxDirectOps
            /\ nDirect' = nDirect + 1
            /\ childOps' = Append(childOps, ChildOp("halfClose", 0))
            /\ UNCHANGED <<pendingHalfClose, issued>>
       ELSE /\ pendingHalfClose' = TRUE
            /\ issued' = [issued EXCEPT !.halfClose = TRUE]
            /\ UNCHANGED <<childOps, nDirect>>
  /\ UNCHANGED <<child, readPending, pendingMessage, ended, metadataSet, waitForReady,
                 deadline, statusWatchers, deadlineTimer, ticks, now,
                 queued, childDeadline, childStatusSent, watcherCalls, listenerCalls,
                 firstEnd>>

addStatusWatcher ==
  /\ statusWatchers < MaxWatchers
  /\ statusWatchers' = statusWatchers + 1
  /\ UNCHANGED <<child, readPending, pendingMessage, pendingHalfClose, ended,
                 metadataSet, waitForReady, deadline, deadlineTimer, ticks,
                 now, queued, childOps, childDeadline, childStatusSent,
                 watcherCalls, listenerCalls, issued, nDirect,
                 firstEnd>>

(* the inner call reports its status: child listener's onReceiveStatus *)
childOnReceiveStatus(status) ==
  /\ child
  /\ ~childStatusSent
  /\ childStatusSent' = TRUE
  /\ outputStatus(status, ticks)
  /\ UNCHANGED <<child, readPending, pendingMessage, pendingHalfClose, metadataSet,
                 waitForReady, deadline, statusWatchers, deadlineTimer, now, queued, childOps, childDeadline, listenerCalls, issued,
                 nDirect>>

(* the setTimeout of runDeadlineTimer fires: handleDeadline *)
deadlineTimerFires ==
  /\ deadlineTimer.armed
  /\ now >= deadlineTimer.at
  /\ deadlineTimer' = NoTimer
  /\ cancelWithStatusBody("DEADLINE_EXCEEDED", ticks)
  /\ UNCHANGED <<child, readPending, pendingMessage, pendingHalfClose, metadataSet,
                 waitForReady, deadline, statusWatchers, now, queued,
                 childDeadline, childStatusSent, listenerCalls, issued, nDirect>>

(* the next process.nextTick callback runs *)
nextTick ==
  /\ Len(ticks) > 0
  /\ IF Head(ticks).fn = "handleDeadline"
       THEN /\ cancelWithStatusBody("DEADLINE_EXCEEDED", Tail(ticks))
            /\ UNCHANGED listenerCalls
       ELSE /\ ticks' = Tail(ticks)
            /\ listenerCalls' = IF metadataSet
                                   THEN Append(listenerCalls, Head(ticks).status)
                                   ELSE listenerCalls
            /\ UNCHANGED <<ended, childOps, watcherCalls, firstEnd>>
  /\ UNCHANGED <<child, readPending, pendingMessage, pendingHalfClose, metadataSet,
                 waitForReady, deadline, statusWatchers, deadlineTimer, now, queued, childDeadline, childStatusSent, issued, nDirect>>

advanceTime ==
  /\ now < MaxTime
  /\ now' = now + 1
  /\ UNCHANGED <<child, readPending, pendingMessage, pendingHalfClose, ended,
                 metadataSet, waitForReady, deadline, statusWatchers, deadlineTimer,
                 ticks, queued, childOps, childDeadline,
                 childStatusSent, watcherCalls, listenerCalls, issued, nDirect, firstEnd>>

(***************************************************************************)
(* Specifications: the resolver with its calls, and one ResolvingCall.     *)
(***************************************************************************)
(* the values Math.random() takes in one run of the routing function: one  *)
(* per route with a fraction check, one for a weighted-cluster action      *)
fractionDraws(list) ==
  {fd \in [1..Len(list) -> Draws] :
     \A i \in 1..Len(list) : ~list[i].match.runtime_fraction.present => fd[i] = 0}

actionDraws(list) ==
  IF \E i \in 1..Len(list) : list[i].route.cluster_specifier = "weighted_clusters"
    THEN Draws ELSE {0}

NextXds ==
  \/ updateResolution /\ UNCHANGED <<callVars, fnVars>>
  \/ destroy /\ UNCHANGED <<callVars, fnVars>>
  \/ \E n \in RouteConfigNames : ldsOnValidUpdateRds(n) /\ UNCHANGED <<callVars, fnVars>>
  \/ \E t \in TableIds : ldsOnValidUpdateInline(t) /\ UNCHANGED <<callVars, fnVars>>
  \/ \E t \in TableIds : rdsOnValidUpdate(t) /\ UNCHANGED <<callVars, fnVars>>
  \/ ldsOnTransientError /\ UNCHANGED <<callVars, fnVars>>
  \/ rdsOnTransientError /\ UNCHANGED <<callVars, fnVars>>
  \/ ldsOnResourceDoesNotExist /\ UNCHANGED <<callVars, fnVars>>
  \/ rdsOnResourceDoesNotExist /\ UNCHANGED <<callVars, fnVars>>
  \/ /\ configSelector # "null"
     /\ \E m \in Methods, md \in Metadatas,
           fd \in fractionDraws(selectorRoutes(configSelector)),
           pd \in actionDraws(selectorRoutes(configSelector)) :
           configSelectorCall(m, md, fd, pd)
     /\ UNCHANGED <<callVars, fnVars>>
  \/ \E c \in ClusterNames : onCommitted(c) /\ UNCHANGED <<callVars, fnVars>>

InitSpecXds ==
  /\ InitXds
  /\ constructor(Infinity, FALSE, FALSE, Infinity)
  /\ noFn

SpecXds == InitSpecXds /\ [][NextXds]_vars

NextCall ==
  \/ \E w \in BOOLEAN, r \in ConfigResults : start(w, r) /\ UNCHANGED <<xdsVars, fnVars, options>>
  \/ \E r \in ConfigResults : channelGetConfig(r) /\ UNCHANGED <<xdsVars, fnVars, options>>
  \/ reportResolverError("UNAVAILABLE") /\ UNCHANGED <<xdsVars, fnVars, options>>
  \/ cancelWithStatus("CANCELLED") /\ UNCHANGED <<xdsVars, fnVars, options>>
  \/ \E m \in Messages : sendMessageWithContext(m) /\ UNCHANGED <<xdsVars, fnVars, options>>
  \/ startRead /\ UNCHANGED <<xdsVars, fnVars, options>>
  \/ halfClose /\ UNCHANGED <<xdsVars, fnVars, options>>
  \/ addStatusWatcher /\ UNCHANGED <<xdsVars, fnVars, options>>
  \/ childOnReceiveStatus("OK") /\ UNCHANGED <<xdsVars, fnVars, options>>
  \/ deadlineTimerFires /\ UNCHANGED <<xdsVars, fnVars, options>>
  \/ nextTick /\ UNCHANGED <<xdsVars, fnVars, options>>
  \/ advanceTime /\ UNCHANGED <<xdsVars, fnVars, options>>

InitSpecCall ==
  /\ InitXds
  /\ routing = TRUE
  /\ InitCall
  /\ noFn

SpecCall == InitSpecCall /\ [][NextCall]_vars

(* process.nextTick callbacks are always run by the event loop once the    *)
(* running operation has returned                                          *)
nextTickRuns == nextTick /\ UNCHANGED <<xdsVars, fnVars, options>>

(* the calls whose deadline is reached when the constructor returns *)
InitPastDeadline ==
  /\ InitXds
  /\ routing = TRUE
  /\ \E o \in ConstructorOptions :
       /\ constructor(o.deadline, o.parentCall, o.propagateDeadline, o.parentDeadline)
       /\ deadline # Infinity
       /\ getRelativeTimeout(deadline) <= 0
  /\ noFn

(* the steps of such a call: every step of NextCall but the firing of the  *)
(* setTimeout of line 92, which runDeadlineTimer does not set for them     *)
NextPastDeadline ==
  \/ \E w \in BOOLEAN, r \in ConfigResults : start(w, r) /\ UNCHANGED <<xdsVars, fnVars, options>>
  \/ \E r \in ConfigResults : channelGetConfig(r) /\ UNCHANGED <<xdsVars, fnVars, options>>
  \/ reportResolverError("UNAVAILABLE") /\ UNCHANGED <<xdsVars, fnVars, options>>
  \/ cancelWithStatus("CANCELLED") /\ UNCHANGED <<xdsVars, fnVars, options>>
  \/ \E m \in Messages : sendMessageWithContext(m) /\ UNCHANGED <<xdsVars, fnVars, options>>
  \/ startRead /\ UNCHANGED <<xdsVars, fnVars, options>>
  \/ halfClose /\ UNCHANGED <<xdsVars, fnVars, options>>
  \/ addStatusWatcher /\ UNCHANGED <<xdsVars, fnVars, options>>
  \/ childOnReceiveStatus("OK") /\ UNCHANGED <<xdsVars, fnVars, options>>
  \/ nextTick /\ UNCHANGED <<xdsVars, fnVars, options>>
  \/ advanceTime /\ UNCHANGED <<xdsVars, fnVars, options>>

SpecPastDeadline == InitPastDeadline /\ [][NextPastDeadline]_vars /\ WF_vars(nextTickRuns)

(***************************************************************************)
(* Applying the resolver's functions to arguments.                         *)
(*                                                                         *)
(* Each behaviour applies one function once: the initial state holds the   *)
(* call (function and arguments), the one step evaluates it as the code    *)
(* does and stores what it returned.                                       *)
(***************************************************************************)
MaxDomains == 2

DomainPatterns ==
  { <<>>, <<"*">>, <<"a", "b">>, <<"*", "b">>, <<"*", "a", "b">>, <<"a", "*">>,
    <<"a", "b", "*">>, <<"a", "*", "b">> }

HostNames == { <<"a", "b">>, <<"b">> }

RECURSIVE SeqsUpTo(_, _)
SeqsUpTo(S, n) ==
  IF n = 0 THEN { <<>> }
  ELSE SeqsUpTo(S, n - 1)
         \cup { Append(q, x) : q \in {r \in SeqsUpTo(S, n - 1) : Len(r) = n - 1}, x \in S }

VirtualHosts ==
  { [domains |-> ds] : ds \in SeqsUpTo(DomainPatterns, MaxDomains) \ { <<>> } }

SingleDomainHosts == { [domains |-> <<pat>>] : pat \in DomainPatterns }

(* one virtual host, or two of which one has a single domain pattern *)
VirtualHostLists ==
  { <<v>> : v \in VirtualHosts }
    \cup { <<v, w>> : v \in VirtualHosts, w \in SingleDomainHosts }
    \cup { <<w, v>> : v \in VirtualHosts, w \in SingleDomainHosts }

FindVirtualHostCalls ==
  { [fn |-> "findVirtualHostForDomain", virtualHostList |-> l, domain |-> d] :
      l \in VirtualHostLists, d \in HostNames }

applyFindVirtualHostForDomain ==
  /\ fnCall.fn = "findVirtualHostForDomain"
  /\ ~fnDone
  /\ fnDone' = TRUE
  /\ fnResult' = findVirtualHostForDomain(fnCall.virtualHostList, fnCall.domain)
  /\ UNCHANGED fnCall

MaxPatternLen == 3

PatternChars == {"a", "b", "*"}

DomainMatchCalls ==
  { [fn |-> "domainMatch", domainPattern |-> pat, expectedHostName |-> h] :
      pat \in SeqsUpTo(PatternChars, MaxPatternLen),
      h \in SeqsUpTo(PatternChars, MaxPatternLen) }

(* the classification of a pattern and its comparison with the hostname,   *)
(* as the loop body of findVirtualHostForDomain calls them                 *)
applyDomainMatch ==
  /\ fnCall.fn = "domainMatch"
  /\ ~fnDone
  /\ fnDone' = TRUE
  /\ fnResult' =
       [matchType |-> domainPatternMatchType(fnCall.domainPattern),
        matched |-> domainMatch(domainPatternMatchType(fnCall.domainPattern),
                                fnCall.domainPattern, fnCall.expectedHostName)]
  /\ UNCHANGED fnCall

HeaderNames ==
  { <<"h", "-", "b", "i", "n">>, <<"-", "b", "i", "n">>, <<"h">>, ContentType }

HeaderMetadatas ==
  Metadatas \cup { (<<"h", "-", "b", "i", "n">> :> << <<"1">> >>) }

HeaderMatchers ==
  { HeaderRule(n, k, v, inv) :
      n \in HeaderNames, k \in HeaderSpecifiers \cup {"none"},
      v \in { <<>>, <<"1">> }, inv \in BOOLEAN }

HeaderMatcherCalls ==
  { [fn |-> "getPredicateForHeaderMatcher", headerMatch |-> hm, metadata |-> md] :
      hm \in HeaderMatchers, md \in HeaderMetadatas }

(* compiling a header rule and calling the compiled predicate *)
applyHeaderMatcher ==
  /\ fnCall.fn = "getPredicateForHeaderMatcher"
  /\ ~fnDone
  /\ fnDone' = TRUE
  /\ fnResult' = getPredicateForHeaderMatcher(fnCall.headerMatch, fnCall.metadata)
  /\ UNCHANGED fnCall

MaxWeightedClusters == 2

ClusterWeights == { [name |-> n, weight |-> w] : n \in {"A", "B"}, w \in {0, 1, 3, 30, 70} }

WeightedRoutes ==
  { [match |-> RouteMatch("prefix", <<>>, TRUE, <<>>, NoFraction),
     route |-> ToWeighted(cs, t.present, t.value)] :
      cs \in SeqsUpTo(ClusterWeights, MaxWeightedClusters) \ { <<>> },
      t \in { [present |-> FALSE, value |-> 0] }
              \cup { [present |-> TRUE, value |-> v] : v \in {0, 4, 100} } }

RouteActionCalls ==
  { [fn |-> "routeAction", route |-> r, draw |-> d] : r \in WeightedRoutes, d \in Draws }

(* one call of the routeAction closure built for a weighted_clusters route *)
applyRouteAction ==
  /\ fnCall.fn = "routeAction"
  /\ ~fnDone
  /\ fnDone' = TRUE
  /\ fnResult' = routeAction(fnCall.route, fnCall.draw)
  /\ UNCHANGED fnCall

FnCalls ==
  FindVirtualHostCalls \cup DomainMatchCalls \cup HeaderMatcherCalls \cup RouteActionCalls

NextFn ==
  \/ applyFindVirtualHostForDomain /\ UNCHANGED <<xdsVars, callVars>>
  \/ applyDomainMatch /\ UNCHANGED <<xdsVars, callVars>>
  \/ applyHeaderMatcher /\ UNCHANGED <<xdsVars, callVars>>
  \/ applyRouteAction /\ UNCHANGED <<xdsVars, callVars>>

InitSpecFn ==
  /\ InitXds
  /\ routing = TRUE
  /\ constructor(Infinity, FALSE, FALSE, Infinity)
  /\ fnCall \in FnCalls
  /\ fnDone = FALSE
  /\ fnResult = 0

SpecFn == InitSpecFn /\ [][NextFn]_vars

(***************************************************************************)
(* Properties of the resolver (checked under SpecXds).                     *)
(***************************************************************************)
(* the clusters of the surviving routes of the table the resolver applied  *)
(* last (the table the published routing function was built from)          *)
currentTableClusters ==
  IF configSelector = "null" THEN {}
  ELSE allConfigClusters(selectorRoutes(configSelector))

noVirtualHost(id) == findVirtualHostForDomain(Table(id).virtual_hosts, target) = 0

oneFailure(evs) ==
  Len(evs) = 1 /\ evs[1].type = "onError" /\ evs[1].code = "UNAVAILABLE"

successes(evs) == {i \in 1..Len(evs) : evs[i].type = "onSuccessfulResolution"}

(* C1: an entry of the cluster ref-count table exists if and only if the   *)
(* cluster is in the current routing table (its inLastConfig flag is TRUE) *)
(* or its refCount is greater than 0, and no refCount is negative.  For a  *)
(* cluster without an entry, "in the current table" is membership in the   *)
(* clusters of the table applied last, and "refCount > 0" is having        *)
(* uncommitted matches.                                                    *)
C1_EntryIffInTableOrReferenced ==
  \A c \in ClusterNames :
    /\ c \in DOMAIN clusterRefcounts =>
         /\ clusterRefcounts[c].inLastConfig \/ clusterRefcounts[c].refCount > 0
         /\ clusterRefcounts[c].refCount >= 0
         /\ clusterRefcounts[c].inLastConfig <=> c \in currentTableClusters
    /\ c \notin DOMAIN clusterRefcounts =>
         c \notin currentTableClusters /\ pending[c] = 0

(* C1 witness: a commit has just removed an entry while another cluster    *)
(* that left the table is kept by its references                           *)
C1_Witness ==
  /\ lastOp.op = "commit" /\ lastOp.status = "deleted"
  /\ lastOp.arg \notin DOMAIN clusterRefcounts
  /\ \E c \in DOMAIN clusterRefcounts :
       ~clusterRefcounts[c].inLastConfig /\ clusterRefcounts[c].refCount > 0

(* C2 (as claimed): a cluster that a call still references is in every     *)
(* published load-balancing configuration, and the commit that drops its   *)
(* refCount to 0 after it left the table publishes, in the same step, a    *)
(* load-balancing configuration without it, whatever updates came between. *)
C2_RemovedAtCommit ==
  /\ \A c \in ClusterNames :
       pending[c] > 0 /\ lbConfig.kind = "xds_cluster_manager" => c \in lbConfig.clusters
  /\ lastOp.op = "commit" /\ lastOp.status = "deleted" =>
       /\ Len(events) = 1
       /\ events[1].type = "onSuccessfulResolution"
       /\ lastOp.arg \notin events[1].clusters
       /\ lastOp.arg \notin lbConfig.clusters

(* C3 (as claimed): once a successful resolution has been published, a     *)
(* transient error of either watcher makes no onError report.              *)
C3_TransientErrorSwallowedAfterSuccess ==
  lastOp.op \in {"ldsTransientError", "rdsTransientError"} /\ lbConfig.kind # "none"
    => events = <<>>

(* C4: a "resource does not exist" signal of either watch reports exactly  *)
(* one resolution failure with status UNAVAILABLE, whether or not a        *)
(* success was reported before, and leaves the ref-count table unchanged.  *)
C4_DoesNotExistStep ==
  lastOp'.op \in {"ldsDoesNotExist", "rdsDoesNotExist"} =>
    /\ oneFailure(events')
    /\ clusterRefcounts' = clusterRefcounts
    /\ UNCHANGED <<lbConfig, configSelector>>

C4_DoesNotExistAlwaysFails == [][C4_DoesNotExistStep]_vars

(* C4 witness: the signal arrives after a successful resolution, with      *)
(* clusters in the table                                                   *)
C4_Witness ==
  /\ lastOp.op = "rdsDoesNotExist"
  /\ oneFailure(events)
  /\ hasReportedSuccess
  /\ lbConfig.kind # "none"

(* C5: a routing-table update without a virtual host for the target        *)
(* reports one resolution failure, publishes nothing and leaves every      *)
(* entry of the ref-count table unchanged.                                 *)
C5_NoVirtualHostStep ==
  lastOp'.op \in {"ldsInline", "rdsUpdate"} /\ noVirtualHost(lastOp'.arg) =>
    /\ oneFailure(events')
    /\ clusterRefcounts' = clusterRefcounts
    /\ UNCHANGED <<lbConfig, configSelector>>

C5_NoVirtualHostLeavesTable == [][C5_NoVirtualHostStep]_vars

(* C5 witness: such an update arrives while the table holds a referenced   *)
(* cluster and a cluster of the current table                              *)
C5_Witness ==
  /\ lastOp.op = "rdsUpdate" /\ noVirtualHost(lastOp.arg)
  /\ oneFailure(events)
  /\ \E c \in DOMAIN clusterRefcounts : clusterRefcounts[c].refCount > 0
  /\ \E c \in DOMAIN clusterRefcounts : clusterRefcounts[c].refCount = 0

(* C6: every successful match increases the refCount of the returned       *)
(* cluster by exactly 1 and its commit decreases it by exactly 1, so the   *)
(* refCount of a cluster is the number of uncommitted matches that         *)
(* returned it; an 'unavailable' result changes no refCount.               *)
C6_Balance ==
  \A c \in ClusterNames :
    IF c \in DOMAIN clusterRefcounts
      THEN clusterRefcounts[c].refCount = pending[c]
      ELSE pending[c] = 0

C6_Step ==
  /\ lastOp'.op = "select" /\ lastOp'.status = "OK" =>
       /\ lastOp'.arg \in DOMAIN clusterRefcounts
       /\ clusterRefcounts' =
            [clusterRefcounts EXCEPT ![lastOp'.arg].refCount = @ + 1]
  /\ lastOp'.op = "select" /\ lastOp'.status = "UNAVAILABLE" =>
       clusterRefcounts' = clusterRefcounts /\ pending' = pending
  /\ lastOp'.op = "commit" =>
       /\ lastOp'.arg \in DOMAIN clusterRefcounts
       /\ \/ /\ lastOp'.arg \in DOMAIN clusterRefcounts'
             /\ clusterRefcounts'[lastOp'.arg].refCount =
                  clusterRefcounts[lastOp'.arg].refCount - 1
          \/ /\ lastOp'.arg \notin DOMAIN clusterRefcounts'
             /\ clusterRefcounts[lastOp'.arg].refCount = 1

C7_Step ==
  lastOp'.op = "select" =>
    LET in == lastOp'.input
        list == selectorRoutes(configSelector)
        holds == {i \in 1..Len(list) :
                    getPredicateForMatcher(list[i].match, in.methodName, in.metadata,
                                           in.fracDraws[i])}
    IN IF holds = {}
         THEN /\ lastOp'.status = "UNAVAILABLE"
              /\ pending' = pending
         ELSE LET first == CHOOSE i \in holds : \A j \in holds : i <= j
                  cluster == routeAction(list[first], in.pickDraw)
              IN /\ lastOp'.status = "OK"
                 /\ lastOp'.arg = cluster
                 /\ pending' = [pending EXCEPT ![cluster] = @ + 1]

C7_FirstMatchingRouteWins == [][C7_Step]_vars

(* C7 witness: with the two routes of T_AB, which both match "/a", the     *)
(* call got the first route's cluster, and a call no route matches got     *)
(* UNAVAILABLE                                                             *)
C7_Witness ==
  /\ configSelector = "T_AB"
  /\ lastOp.op = "select"
  /\ lastOp.input.methodName = <<"/", "a">>
  /\ lastOp.arg = "A" /\ lastOp.status = "OK"

(* C8 (as claimed): at every successful publish the clusters of the        *)
(* published load-balancing configuration are the keys of the ref-count    *)
(* table.                                                                  *)
C8_PublishedClustersAreTableKeys ==
  \A i \in successes(events) : events[i].clusters = DOMAIN clusterRefcounts

(* C8 (amended): at every successful publish made with route matching      *)
(* enabled, the clusters of the published load-balancing configuration are *)
(* the keys of the ref-count table: the clusters of the surviving routes   *)
(* of the current table and those with refCount > 0.                       *)
C8_PublishedClustersAreTableKeysWhenRouting ==
  routing =>
    \A i \in successes(events) :
      /\ events[i].clusters = DOMAIN clusterRefcounts
      /\ events[i].clusters =
           allConfigClusters(selectorRoutes(events[i].selector))
           \cup {c \in DOMAIN clusterRefcounts : clusterRefcounts[c].refCount > 0}

(* C8 witness: a publish whose configuration holds a cluster that is no    *)
(* longer in the table but still referenced                                *)
C8_Witness ==
  /\ routing
  /\ successes(events) # {}
  /\ \E c \in lbConfig.clusters :
       ~clusterRefcounts[c].inLastConfig /\ clusterRefcounts[c].refCount > 0

(***************************************************************************)
(* Properties of the ResolvingCall (checked under SpecCall).               *)
(***************************************************************************)
(* what the inner call must receive at binding, from the operations the    *)
(* caller requested before it                                              *)
expectedAtBind(req) ==
  <<ChildOp("start", 0)>>
  \o (IF req.read THEN <<ChildOp("startRead", 0)>> ELSE <<>>)
  \o (IF req.message # 0
        THEN <<ChildOp("sendMessageWithContext", req.message)>> ELSE <<>>)
  \o (IF req.halfClose THEN <<ChildOp("halfClose", 0)>> ELSE <<>>)

C9_Bound ==
  IF child
    THEN /\ Len(childOps) >= Len(expectedAtBind(issued))
         /\ SubSeq(childOps, 1, Len(expectedAtBind(issued))) = expectedAtBind(issued)
    ELSE childOps = <<>>

C9_BindStep ==
  ~child /\ child' => childOps' = expectedAtBind(issued) /\ issued' = issued

(* C9: whatever the order in which startRead, sendMessageWithContext and   *)
(* halfClose were called before configuration resolved, the inner call     *)
(* receives at binding start, then read-start, the buffered message and    *)
(* half-close in that order, and no operation that was not requested.      *)
C9_ReplayOrder == []C9_Bound /\ [][C9_BindStep]_vars

(* C9 witness: all three operations were requested before binding and the  *)
(* inner call has received the four operations                             *)
C9_Witness ==
  /\ child
  /\ issued.read /\ issued.message = 2 /\ issued.halfClose
  /\ Len(childOps) = 4
  /\ childOps[4] = ChildOp("halfClose", 0)

C10_Delivered ==
  /\ Len(listenerCalls) <= 1
  /\ \A i \in 1..Len(listenerCalls) : listenerCalls[i] = firstEnd
  /\ \A i \in 1..Len(watcherCalls) : watcherCalls[i].status = firstEnd
  /\ firstEnd = "null" => watcherCalls = <<>> /\ listenerCalls = <<>>

C10_EndStep ==
  /\ firstEnd = "null" /\ firstEnd' # "null" =>
       /\ watcherCalls' = [i \in 1..statusWatchers |->
                             [watcher |-> i, status |-> firstEnd']]
       /\ listenerCalls' = listenerCalls
       /\ Len(ticks') > 0
       /\ ticks'[Len(ticks')] = Tick("onReceiveStatus", firstEnd')
  /\ firstEnd # "null" =>
       /\ firstEnd' = firstEnd
       /\ watcherCalls' = watcherCalls
       /\ \A i \in 1..Len(ticks') :
            ticks'[i].fn = "onReceiveStatus" =>
              \E j \in 1..Len(ticks) : ticks[j] = ticks'[i]
  /\ listenerCalls' # listenerCalls =>
       /\ firstEnd # "null"
       /\ Len(ticks) > 0 /\ Head(ticks) = Tick("onReceiveStatus", firstEnd)
       /\ listenerCalls' = <<firstEnd>>

(* C10: over any sequence of ending events on one call, every registered   *)
(* status watcher is invoked exactly once, within the first ending event,  *)
(* the listener receives onReceiveStatus at most once, in a scheduling     *)
(* tick after that event, both with the status of the first ending event,  *)
(* and later ending events deliver nothing.                                *)
C10_EndingSingleShot == []C10_Delivered /\ [][C10_EndStep]_vars

(* C10 witness: a cancelled call whose inner call then reported a status:  *)
(* the watcher and the listener each got CANCELLED once                    *)
C10_Witness ==
  /\ listenerCalls = <<"CANCELLED">>
  /\ watcherCalls = <<[watcher |-> 1, status |-> "CANCELLED"]>>
  /\ childStatusSent
  /\ ticks = <<>>

(* C11 (as claimed): whenever the effective deadline changes, the deadline  *)
(* timer is cleared and re-armed, so that after a configuration merge that *)
(* lowers the deadline the armed timer expires at the merged deadline.     *)
C11_TimerStep ==
  deadline' # deadline =>
    deadlineTimer' = [armed |-> TRUE, at |-> deadline']

C11_TimerRearmedOnMerge == [][C11_TimerStep]_vars

(* the deadline the constructor must leave, from its options *)
deadlineAtConstruction ==
  IF options.parentCall /\ options.propagateDeadline
       /\ options.parentDeadline < options.deadline
    THEN options.parentDeadline
    ELSE options.deadline

C12_Held ==
  /\ ~child => deadline = deadlineAtConstruction
  /\ deadline <= deadlineAtConstruction
  /\ child => childDeadline = deadline

C12_MergeStep ==
  /\ deadline' <= deadline
  /\ \A r \in ConfigResults :
       /\ ~child /\ child'
       /\ (channelGetConfig(r) \/ \E w \in BOOLEAN : start(w, r))
       => /\ deadline' = IF r.hasTimeout /\ now + r.seconds < deadline
                            THEN now + r.seconds ELSE deadline
          /\ childDeadline' = deadline'

(* C12: the effective deadline never increases: the constructor leaves the *)
(* minimum of the call's own and the parent's deadline when the propagate  *)
(* flag is set and the call's own deadline otherwise; a configuration      *)
(* merge leaves the minimum of the current deadline and the method-config  *)
(* deadline; the inner call is created with the merged deadline.           *)
C12_DeadlineNeverIncreases == []C12_Held /\ [][C12_MergeStep]_vars

(* C12 witness: the parent's earlier deadline was propagated and the inner *)
(* call was created with it                                                *)
C12_Witness ==
  /\ child
  /\ options.parentCall /\ options.propagateDeadline
  /\ options.parentDeadline < options.deadline
  /\ childDeadline = options.parentDeadline

(* what a failure the configuration signals does to a call that has not    *)
(* ended: requeue (the call is put on the channel's list, and not ended)   *)
(* or end with the given status (and the call is not put on the list)      *)
requeuedFromStart == queued' = queued + 1 /\ ~ended' /\ ~child'

requeuedByChannel == queued' = queued /\ ~ended' /\ ~child'

endedWith(status, q) ==
  /\ ended' /\ firstEnd' = status /\ ~child' /\ queued' = q
  /\ ticks' = Append(ticks, Tick("onReceiveStatus", status))

configFailureStatus(r) ==
  IF r.type = "ERROR" THEN r.status ELSE restrictControlPlaneStatusCode(r.status)

(* the steps of a call in which configuration signals one of the given     *)
(* failures: start, getConfig called again by the channel, and             *)
(* reportResolverError                                                     *)
waitForReadyDecides(failures) ==
  /\ \A r \in failures, w \in BOOLEAN :
       ~ended /\ start(w, r) =>
         IF w THEN requeuedFromStart ELSE endedWith(configFailureStatus(r), queued)
  /\ \A r \in failures :
       ~ended /\ channelGetConfig(r) =>
         IF waitForReady THEN requeuedByChannel
         ELSE endedWith(configFailureStatus(r), queued - 1)
  /\ ~ended /\ reportResolverError("UNAVAILABLE") =>
       IF waitForReady THEN requeuedByChannel
       ELSE endedWith("UNAVAILABLE", queued - 1)

errorResults == {r \in ConfigResults : r.type = "ERROR"}

failedStatusResults == {r \in ConfigResults : r.type = "SUCCESS" /\ r.status # "OK"}

(* C13 (as claimed): for every kind of failure the configuration signals,  *)
(* a started call that requests wait-for-ready is re-enqueued and not      *)
(* ended, and a call that does not is ended with a status computed from    *)
(* the failure and not re-enqueued.                                        *)
C13_WaitForReadyRequeuesOnEveryFailure ==
  [][waitForReadyDecides(errorResults \cup failedStatusResults)]_vars

C13_StatusStep ==
  \A r \in failedStatusResults :
    /\ \A w \in BOOLEAN :
         ~ended /\ start(w, r) => endedWith(configFailureStatus(r), queued)
    /\ ~ended /\ channelGetConfig(r) => endedWith(configFailureStatus(r), queued - 1)

(* C13 (amended): when the channel has no configuration because resolution *)
(* failed (a getConfig result of type ERROR, or reportResolverError), a    *)
(* started call that requests wait-for-ready is re-enqueued and not ended, *)
(* and a call that does not is ended with the signaled status and not      *)
(* re-enqueued; a configuration that is delivered with a status other than *)
(* OK ends the call with the restricted status, wait-for-ready or not.     *)
C13_WaitForReadyRequeuesOnResolutionError ==
  [][waitForReadyDecides(errorResults) /\ C13_StatusStep]_vars

(* C13 witness: a wait-for-ready call that was ended by a configuration    *)
(* delivered with status NOT_FOUND, and its listener told so               *)
C13_Witness ==
  /\ metadataSet /\ waitForReady
  /\ ended /\ firstEnd = restrictControlPlaneStatusCode("NOT_FOUND")
  /\ queued = 0 /\ ~child
  /\ listenerCalls = <<firstEnd>>

(* what a call of cancelWithStatus(status, details) must do *)
cancelled(status) ==
  /\ ended'
  /\ IF ended
       THEN /\ firstEnd' = firstEnd
            /\ watcherCalls' = watcherCalls
            /\ \A i \in 1..Len(ticks') :
                 ticks'[i].fn = "onReceiveStatus" =>
                   \E j \in 1..Len(ticks) : ticks[j] = ticks'[i]
       ELSE /\ firstEnd' = status
            /\ watcherCalls' = [i \in 1..statusWatchers |->
                                  [watcher |-> i, status |-> status]]
            /\ Len(ticks') > 0
            /\ ticks'[Len(ticks')] = Tick("onReceiveStatus", status)
  /\ child' = child
  /\ IF child
       THEN childOps' = Append(childOps, CancelOp(status))
       ELSE childOps' = childOps

C14_CancelStep ==
  /\ cancelWithStatus("CANCELLED") => cancelled("CANCELLED")
  /\ deadlineTimerFires => cancelled("DEADLINE_EXCEEDED")
  /\ nextTick /\ Head(ticks).fn = "handleDeadline" => cancelled("DEADLINE_EXCEEDED")

(* C14: cancelWithStatus(status, details), on a call that is unstarted,    *)
(* awaiting configuration or bound, ends the call with the given status    *)
(* if it has not ended already, and forwards the same cancellation to the  *)
(* inner call if and only if an inner call is bound.                       *)
C14_CancelEndsAndForwards == [][C14_CancelStep]_vars

(* C14 witness: a bound call was cancelled: the inner call got the         *)
(* cancellation after the replayed operations and the call ended with the  *)
(* same status                                                             *)
C14_Witness ==
  /\ child /\ ended /\ firstEnd = "CANCELLED"
  /\ Len(childOps) >= 2
  /\ childOps[Len(childOps)] = CancelOp("CANCELLED")
  /\ watcherCalls = <<[watcher |-> 1, status |-> "CANCELLED"]>>

startsReceived == Cardinality({i \in 1..Len(childOps) : childOps[i].op = "start"})

C20_OneInnerCall ==
  /\ startsReceived <= 1
  /\ child <=> startsReceived = 1
  /\ child => childOps[1] = ChildOp("start", 0) /\ queued = 0
  /\ queued <= 1

(* once the inner call exists it stays, and everything it receives from    *)
(* then on is one operation the caller makes at that moment or a           *)
(* cancellation, never a replay                                            *)
C20_AfterBindStep ==
  child =>
    /\ child'
    /\ \/ childOps' = childOps
       \/ /\ Len(childOps') = Len(childOps) + 1
          /\ SubSeq(childOps', 1, Len(childOps)) = childOps
          /\ \/ childOps'[Len(childOps')].op = "cancelWithStatus"
             \/ /\ nDirect' = nDirect + 1
                /\ childOps'[Len(childOps')].op
                     \in {"startRead", "sendMessageWithContext", "halfClose"}

(* C20: over any sequence of start, getConfig calls by the channel,        *)
(* resolver errors and re-enqueues, at most one inner call is created and  *)
(* started, and each buffered operation reaches an inner call at most      *)
(* once.                                                                   *)
C20_AtMostOneInnerCall == []C20_OneInnerCall /\ [][C20_AfterBindStep]_vars

(* C20 witness: a wait-for-ready call with all three operations buffered   *)
(* was bound, and the caller has since made one more operation             *)
C20_Witness ==
  /\ child /\ waitForReady /\ queued = 0
  /\ issued.read /\ issued.message # 0 /\ issued.halfClose
  /\ nDirect = 1
  /\ Len(childOps) = 5
  /\ startsReceived = 1


(* C15: after any sequence of listener updates the route-table watcher is
   registered on name N exactly when the most recent listener update named
   N: right after a listener update naming N the watch on N is active and no
   other is, right after a listener update with an inline table no watch is
   active, and at any time before destroy a watch is registered on N iff
   latestRouteConfigName is N. *)
C15_WatchFollowsListenerUpdate ==
  /\ lastOp.op = "ldsRds" =>
       \A n \in RouteConfigNames : routeWatchers[n] > 0 <=> n = lastOp.arg
  /\ lastOp.op = "ldsInline" =>
       \A n \in RouteConfigNames : routeWatchers[n] = 0
  /\ ~destroyed =>
       \A n \in RouteConfigNames : routeWatchers[n] > 0 <=> latestRouteConfigName = n


(***************************************************************************)
(* Properties of the resolver's functions (checked under SpecFn).          *)
(***************************************************************************)
(* the (virtual host, domain pattern) positions of the call's list whose   *)
(* pattern matches the call's hostname                                     *)
matchingPairs(call) ==
  { pr \in (1..Len(call.virtualHostList)) \X (1..MaxDomains + 1) :
      /\ pr[2] <= Len(call.virtualHostList[pr[1]].domains)
      /\ LET pat == call.virtualHostList[pr[1]].domains[pr[2]]
         IN domainMatch(domainPatternMatchType(pat), pat, call.domain) }

patternAt(call, pr) == call.virtualHostList[pr[1]].domains[pr[2]]

(* pair a is preferred to pair b: better type, then longer pattern, then   *)
(* earlier in scan order                                                   *)
preferred(call, a, b) ==
  LET ta == domainPatternMatchType(patternAt(call, a))
      tb == domainPatternMatchType(patternAt(call, b))
      la == Len(patternAt(call, a))
      lb == Len(patternAt(call, b))
  IN \/ ta < tb
     \/ ta = tb /\ la > lb
     \/ ta = tb /\ la = lb /\ (a[1] < b[1] \/ (a[1] = b[1] /\ a[2] < b[2]))

bestPair(call) ==
  CHOOSE a \in matchingPairs(call) :
    \A b \in matchingPairs(call) \ {a} : preferred(call, a, b)

(* C16: findVirtualHostForDomain returns the virtual host of the matching  *)
(* (virtual host, pattern) pair with the best match type (exact, then      *)
(* suffix, then prefix, then universal), among those the longest pattern,  *)
(* among equally long ones the first in scan order, and returns none       *)
(* exactly when no pattern matches.                                        *)
C16_BestMatchingVirtualHost ==
  (fnDone /\ fnCall.fn = "findVirtualHostForDomain") =>
    IF matchingPairs(fnCall) = {} THEN fnResult = 0
    ELSE fnResult = bestPair(fnCall)[1]

(* the second host is chosen over a matching first host for its better     *)
(* type or longer pattern                                                  *)
C16_Witness ==
  /\ fnDone
  /\ fnCall.fn = "findVirtualHostForDomain"
  /\ fnResult = 2
  /\ \E pr \in matchingPairs(fnCall) : pr[1] = 1


(* a `*` at a position that is neither the first nor the last of the pattern *)
starInside(domainPattern) ==
  \E i \in 2..(Len(domainPattern) - 1) : domainPattern[i] = "*"

(* C17: a domain pattern that is empty, or that has a `*` anywhere other   *)
(* than as its only, its first or its last character, is classified as     *)
(* invalid and matches no hostname.                                        *)
C17_MisplacedStarIsInvalid ==
  (/\ fnDone
   /\ fnCall.fn = "domainMatch"
   /\ (Len(fnCall.domainPattern) = 0 \/ starInside(fnCall.domainPattern))) =>
    /\ fnResult.matchType = INVALID_MATCH
    /\ ~fnResult.matched


(* C18: the predicate compiled from a header rule whose header name ends   *)
(* in `-bin` returns false for every match kind, every metadata and both   *)
(* values of the invert flag.                                              *)
C18_BinHeaderNeverMatches ==
  (/\ fnDone
   /\ fnCall.fn = "getPredicateForHeaderMatcher"
   /\ endsWith(fnCall.headerMatch.name, <<"-", "b", "i", "n">>)) =>
    fnResult = FALSE


(* the sum of the weights of the first k clusters of the list *)
RECURSIVE cumulativeWeight(_, _)
cumulativeWeight(clusters, k) ==
  IF k = 0 THEN 0 ELSE clusters[k].weight + cumulativeWeight(clusters, k - 1)

totalWeightOf(route) ==
  IF route.route.has_total_weight THEN route.route.total_weight ELSE 100

(* the draw Math.random() * totalWeight of the call is below bound n *)
drawBelow(call, n) == call.draw * totalWeightOf(call.route) < n * RandomSteps

(* result is the name of the first declared cluster whose cumulative       *)
(* weight exceeds the draw                                                 *)
firstExceeding(call, result) ==
  \E k \in 1..Len(call.route.route.clusters) :
    /\ result = call.route.route.clusters[k].name
    /\ drawBelow(call, cumulativeWeight(call.route.route.clusters, k))
    /\ \A j \in 1..(k - 1) :
         ~drawBelow(call, cumulativeWeight(call.route.route.clusters, j))

weightsSumToTotal(route) ==
  /\ totalWeightOf(route) > 0
  /\ cumulativeWeight(route.route.clusters, Len(route.route.clusters))
       = totalWeightOf(route)

C21_EndedStep ==
  /\ ended => ended'
  /\ (ended /\ ~child) => (~child' /\ childOps' = childOps)

(* C21: Ended is terminal: once the call has ended while unstarted or      *)
(* awaiting configuration, no later start or configuration notification    *)
(* creates an inner call or replays buffered operations (the call never    *)
(* becomes Bound), and the ended flag never becomes false again.           *)
C21_EndedIsTerminal == [][C21_EndedStep]_vars

(* a call cancelled before it was bound, on which start or the channel's   *)
(* configuration notification has run after the end                        *)
C21_Witness ==
  /\ ended
  /\ ~child
  /\ metadataSet
  /\ queued = 0
  /\ firstEnd = "CANCELLED"


(* the deadline is not in the future (evaluated when the constructor returns) *)
deadlineReached == deadline # Infinity /\ getRelativeTimeout(deadline) <= 0

handleDeadlinePending == \E i \in 1..Len(ticks) : ticks[i].fn = "handleDeadline"

C22_HandleDeadlineStep ==
  (nextTick /\ Head(ticks).fn = "handleDeadline" /\ ~ended) =>
    (ended' /\ firstEnd' = "DEADLINE_EXCEEDED")

(* C22: a call constructed with a deadline that is already reached is not  *)
(* ended when the constructor returns: the expiry is scheduled as a tick;  *)
(* while that tick is pending the call has not ended with                  *)
(* DEADLINE_EXCEEDED; when the tick runs on a call no other event has      *)
(* ended it ends the call with DEADLINE_EXCEEDED; and the call does end.   *)
C22_PastDeadlineEndsInLaterTick ==
  /\ deadlineReached => (~ended /\ handleDeadlinePending)
  /\ [](handleDeadlinePending => (~ended \/ firstEnd # "DEADLINE_EXCEEDED"))
  /\ [][C22_HandleDeadlineStep]_vars
  /\ deadlineReached => <>ended

(* the scheduled expiry has run and ended the call *)
C22_Witness ==
  /\ options.deadline = 0
  /\ ~handleDeadlinePending
  /\ ended
  /\ firstEnd = "DEADLINE_EXCEEDED"
  /\ ~deadlineTimer.armed


(***************************************************************************)
(* Properties of the resolver's watches (checked under SpecXds).           *)
(***************************************************************************)
(* the route-table watch the step is about to unregister is registered *)
routeWatchRegistered ==
  Truthy(latestRouteConfigName) => routeWatchers[latestRouteConfigName] > 0

C23_UnregisterStep ==
  /\ destroy => (listenerWatchers > 0 /\ routeWatchRegistered)
  /\ (\E t \in TableIds : ldsOnValidUpdateInline(t)) => routeWatchRegistered
  /\ \A n \in RouteConfigNames :
       (ldsOnValidUpdateRds(n) /\ latestRouteConfigName # n) => routeWatchRegistered

(* C23: over any sequence of updateResolution, listener updates and        *)
(* destroy the listener watch is registered at most once, no resource name *)
(* is watched twice, and every unregistration (of the listener watch or of *)
(* a route-table watch) removes a watch that is registered at that moment. *)
C23_WatchersSymmetric ==
  /\ [](listenerWatchers <= 1 /\ \A n \in RouteConfigNames : routeWatchers[n] <= 1)
  /\ [][C23_UnregisterStep]_vars


====
